---- MODULE Spec2Model ----
(***************************************************************************)
(* Vehicle control panel simulation: the ControlHandler (simulation step   *)
(* and command surface) operating on one VehicleData record, the           *)
(* ConfigManager with its files, and the VehicleControlPanel that owns     *)
(* them and runs the simulation thread.                                    *)
(*                                                                         *)
(* Fixed-point units used for the float fields of the source:              *)
(*   rpm                                   whole rpm                       *)
(*   speed_kmh, pedals, steering, angles,                                  *)
(*   rates                                 tenths                          *)
(*   odometer_km                           1e-4 km                         *)
(*   pos_*_m                               1e-3 m                          *)
(*   time                                  half seconds                    *)
(* round(x, n) of the source is modelled on exact rationals with ties to   *)
(* even (what Python's round does on a value that is exactly representable)*)
(***************************************************************************)
EXTENDS Integers, Sequences, FiniteSets, TLC

VARIABLES
    vehicle_data,        \* the VehicleData instance held by the handler
    simulation_enabled,  \* ControlHandler.simulation_enabled
    is_running,          \* ControlHandler.is_running
    is_paused,           \* ControlHandler.is_paused
    last_update_time,    \* ControlHandler._last_update_time
    now,                 \* time.time()
    pc,                  \* position of the simulation thread
    delta_time,          \* local of simulate_vehicle_data
    preset,              \* local of simulate_vehicle_data
    noise,               \* the random.uniform draws of the running step
    last,                \* the last operation and the state it started from
    last2,               \* the operation before it
    nops,                \* number of operations so far
    race,                \* bookkeeping of one step racing one command
    fs,                  \* the files: path -> whether it exists and what
                         \* json.load makes of it
    config,              \* VehicleControlPanel.config
    manager_default_config, \* ConfigManager.default_config
    config_is_default,   \* panel.config is the ConfigManager.default_config
                         \* object itself
    sim_thread_running,  \* VehicleControlPanel.sim_thread_running
    steps_after_stop     \* calls of the step begun since the flag was cleared

vars == <<vehicle_data, simulation_enabled, is_running, is_paused,
          last_update_time, now, pc, delta_time, preset, noise,
          last, last2, nops, race, fs, config, manager_default_config,
          config_is_default, sim_thread_running, steps_after_stop>>

\* the state of the panel outside the ControlHandler
panel == <<fs, config, manager_default_config, config_is_default,
           sim_thread_running, steps_after_stop>>

(***************************************************************************)
(* Bounds of the model                                                     *)
(***************************************************************************)
MaxOps == 2      \* operations explored after construction
MaxDt == 2       \* largest time advance (half seconds) before a clock read
MaxConfigOps == 3 \* operations explored when files are loaded and saved

Dts == 0..MaxDt

(***************************************************************************)
(* Python helpers                                                          *)
(***************************************************************************)
Min(a, b) == IF a <= b THEN a ELSE b
Max(a, b) == IF a >= b THEN a ELSE b

\* round(n/d, k) expressed on the scaled integer: nearest integer to n/d,
\* ties to even.  d > 0.
RoundHalfEven(n, d) ==
    LET q == n \div d
        r == n % d
    IN  IF 2 * r < d THEN q
        ELSE IF 2 * r > d THEN q + 1
        ELSE IF q % 2 = 0 THEN q ELSE q + 1

NoneVal == "None"        \* Python None
Absent == "<no attribute>" \* attribute never assigned on the instance

Gears == {"P", "R", "N", "D", "L", "1", "2", "3", "4", "5", "6"}
driving_gears == {"D", "R", "L", "1", "2", "3", "4", "5", "6"}

\* a dict with optional keys: each key holds << >> (absent) or <<value>>
EmptyPreset == [speed_kmh |-> << >>, steering_wheel_angle |-> << >>,
                break_value |-> << >>]

\* the catalogue with Standard Cruise as the preset of any other name
all_maneuver_presets_with_fallback(name) ==
    CASE name = "Sharp Turn" ->
            [speed_kmh |-> <<300>>, steering_wheel_angle |-> <<3000>>,
             break_value |-> << >>]
      [] name = "Emergency Stop" ->
            [speed_kmh |-> <<0>>, steering_wheel_angle |-> << >>,
             break_value |-> <<1000>>]
      [] OTHER ->
            [speed_kmh |-> <<600>>, steering_wheel_angle |-> <<0>>,
             break_value |-> << >>]

all_maneuver_presets(name) ==
    CASE name = "Standard Cruise" ->
            [speed_kmh |-> <<600>>, steering_wheel_angle |-> <<0>>,
             break_value |-> << >>]
      [] name = "Sharp Turn" ->
            [speed_kmh |-> <<300>>, steering_wheel_angle |-> <<3000>>,
             break_value |-> << >>]
      [] name = "Emergency Stop" ->
            [speed_kmh |-> <<0>>, steering_wheel_angle |-> << >>,
             break_value |-> <<1000>>]
      [] OTHER -> EmptyPreset

\* dict.get(key, default)
Get(opt, default) == IF opt = << >> THEN default ELSE opt[1]

(***************************************************************************)
(* VehicleData                                                             *)
(***************************************************************************)
\* validate without the test of steering_wheel_angle
validate_without_steering(vd) ==
    /\ 0 <= vd.rpm /\ vd.rpm <= 8000
    /\ 0 <= vd.speed_kmh /\ vd.speed_kmh <= 3000
    /\ 0 <= vd.clutch_value /\ vd.clutch_value <= 1000
    /\ 0 <= vd.break_value /\ vd.break_value <= 1000
    /\ 0 <= vd.accel_value /\ vd.accel_value <= 1000

\* VehicleData.validate on numbers (the TypeError of a comparison with a
\* value that is not a number is caught at line 43 and gives False)
validate(vd) ==
    /\ 0 <= vd.rpm /\ vd.rpm <= 8000
    /\ 0 <= vd.speed_kmh /\ vd.speed_kmh <= 3000
    /\ -7800 <= vd.steering_wheel_angle /\ vd.steering_wheel_angle <= 7800
    /\ 0 <= vd.clutch_value /\ vd.clutch_value <= 1000
    /\ 0 <= vd.break_value /\ vd.break_value <= 1000
    /\ 0 <= vd.accel_value /\ vd.accel_value <= 1000

\* ConfigManager._get_default_config()["vehicle_data"]
default_vehicle_data ==
    [rpm |-> 1500, speed_kmh |-> 450, odometer_km |-> 0, gear |-> "N",
     clutch_value |-> 0, break_value |-> 0, accel_value |-> 46,
     pos_x_m |-> 3400000, pos_y_m |-> 3400000, pos_z_m |-> 3400000,
     angle_roll_deg |-> 0, angle_pitch_deg |-> 0, angle_yaw_deg |-> 0,
     roll_rate_degs |-> 34, pitch_rate_degs |-> 34, yaw_rate_degs |-> 1667,
     steering_wheel_angle |-> 600,
     vehicle_started |-> FALSE, maneuver_active |-> FALSE]

\* ConfigManager._get_default_config()
default_config ==
    [refresh_rate |-> 1000, simulation_enabled |-> TRUE, debug_mode |-> FALSE,
     vehicle_data |-> default_vehicle_data]

\* the dataclass fields of VehicleData (maneuver_name is not one of them)
VehicleDataFields == DOMAIN default_vehicle_data

\* VehicleData(**record): an instance with the record's fields and no
\* maneuver_name attribute
VehicleData(rec) ==
    [f \in VehicleDataFields \cup {"maneuver_name"} |->
        IF f = "maneuver_name" THEN Absent ELSE rec[f]]

(***************************************************************************)
(* Files and the ConfigManager.  A file is absent, or holds text; json is  *)
(* what json.load makes of the text: << >> when it raises JSONDecodeError, *)
(* <<record>> when it parses.  json.dump followed by json.load returns the *)
(* dict that was dumped: its keys and, for the numbers, booleans and       *)
(* strings stored here, its values.                                        *)
(***************************************************************************)
\* ConfigManager.config_file
config_file == "data/config.json"
\* a file name picked in a file dialog
chosen_file == "saved/vehicle.json"
FilePaths == {config_file, chosen_file}

NoFile == [exists |-> FALSE, json |-> << >>]
MalformedFile == [exists |-> TRUE, json |-> << >>]
JsonFile(cfg) == [exists |-> TRUE, json |-> <<cfg>>]

\* file_path or self.config_file
path_or_default(file_path) ==
    IF file_path = NoneVal THEN config_file ELSE file_path

\* ConfigManager.save_config on the files F
save_config(F, cfg, file_path) ==
    [F EXCEPT ![path_or_default(file_path)] = JsonFile(cfg)]

\* ConfigManager.load_config on the files F, default being the manager's
\* default_config: the files afterwards, the dict returned, and whether the
\* dict returned is the default_config object itself
load_config(F, default, file_path) ==
    LET f == F[path_or_default(file_path)]
    IN  IF ~f.exists
          THEN [fs |-> save_config(F, default, NoneVal),
                config |-> default, is_default |-> TRUE, raised |-> FALSE]
        ELSE IF f.json = << >>
          THEN [fs |-> F, config |-> default, is_default |-> TRUE,
                raised |-> FALSE]
        ELSE [fs |-> F, config |-> f.json[1], is_default |-> FALSE,
              raised |-> FALSE]

\* dict.update
dict_update(a, b) ==
    [k \in DOMAIN a \cup DOMAIN b |-> IF k \in DOMAIN b THEN b[k] ELSE a[k]]

\* the dict literal of save_config_dialog and on_closing
saved_vehicle_data(vd) == [f \in VehicleDataFields |-> vd[f]]

(***************************************************************************)
(* simulate_vehicle_data, statement by statement.  T is delta_time in half *)
(* seconds; pedal values A, B and speeds are in tenths.                    *)
(***************************************************************************)
\* lines 36-42 with the accelerator adding per call, whatever dt
rpm_update_per_call(vd, T) ==
    LET A == vd.accel_value
        B == vd.break_value
        r == IF A > 0
               THEN RoundHalfEven(Min(4 * 8000, 4 * vd.rpm + A), 4)
             ELSE IF B > 0
               THEN RoundHalfEven(Max(0, 10 * vd.rpm - B * T), 10)
             ELSE RoundHalfEven(Max(0, vd.rpm - 50 * T), 1)
    IN  [vd EXCEPT !.rpm = r]

\* lines 36-42 with the accelerator gain 50 in place of 5
rpm_update_gain_50(vd, T) ==
    LET A == vd.accel_value
        B == vd.break_value
        r == IF A > 0
               THEN RoundHalfEven(Min(2 * 8000, 2 * vd.rpm + 5 * A * T), 2)
             ELSE IF B > 0
               THEN RoundHalfEven(Max(0, 10 * vd.rpm - B * T), 10)
             ELSE RoundHalfEven(Max(0, vd.rpm - 50 * T), 1)
    IN  [vd EXCEPT !.rpm = r]

\* lines 36-42: rpm from the pedals, then round(rpm, 0)
rpm_update(vd, T) ==
    LET A == vd.accel_value
        B == vd.break_value
        r == IF A > 0
               THEN RoundHalfEven(Min(4 * 8000, 4 * vd.rpm + A * T), 4)
             ELSE IF B > 0
               THEN RoundHalfEven(Max(0, 10 * vd.rpm - B * T), 10)
             ELSE RoundHalfEven(Max(0, vd.rpm - 50 * T), 1)
    IN  [vd EXCEPT !.rpm = r]

\* lines 50-52: the three preset.get assignments
apply_preset_speed(vd, p) ==
    [vd EXCEPT !.speed_kmh = Get(p.speed_kmh, vd.speed_kmh)]
apply_preset_steering(vd, p) ==
    [vd EXCEPT !.steering_wheel_angle =
                   Get(p.steering_wheel_angle, vd.steering_wheel_angle)]
\* line 52 with preset.get('break_value', 0)
apply_preset_break_or_zero(vd, p) ==
    [vd EXCEPT !.break_value = Get(p.break_value, 0)]
apply_preset_break(vd, p) ==
    [vd EXCEPT !.break_value = Get(p.break_value, vd.break_value)]

\* line 62: round(speed_kmh, 1)
round_speed(vd) == [vd EXCEPT !.speed_kmh = RoundHalfEven(vd.speed_kmh, 1)]

\* lines 53-62: speed from pedals and gear when no maneuver is active
\* lines 55-62 with the accelerator tested before the brake
speed_update_accel_first(vd, T) ==
    LET A == vd.accel_value
        B == vd.break_value
        S == vd.speed_kmh
        s == IF A > 0 /\ vd.gear \in driving_gears
               THEN RoundHalfEven(Min(4 * 3000, 4 * S + A * T), 4)
             ELSE IF B > 0
               THEN RoundHalfEven(Max(0, 2 * S - B * T), 2)
             ELSE IF vd.gear \in driving_gears /\ S > 0
               THEN RoundHalfEven(Max(0, S - 25 * T), 1)
             ELSE IF vd.gear \in {"N", "P"}
               THEN 0
             ELSE RoundHalfEven(S, 1)
    IN  [vd EXCEPT !.speed_kmh = s]

\* lines 55-62 with N and P coasting like a driving gear
speed_update_coasting_in_neutral(vd, T) ==
    LET A == vd.accel_value
        B == vd.break_value
        S == vd.speed_kmh
        s == IF A > 0 /\ B = 0 /\ vd.gear \in driving_gears
               THEN RoundHalfEven(Min(4 * 3000, 4 * S + A * T), 4)
             ELSE IF B > 0
               THEN RoundHalfEven(Max(0, 2 * S - B * T), 2)
             ELSE IF S > 0
               THEN RoundHalfEven(Max(0, S - 25 * T), 1)
             ELSE RoundHalfEven(S, 1)
    IN  [vd EXCEPT !.speed_kmh = s]

speed_update(vd, T) ==
    LET A == vd.accel_value
        B == vd.break_value
        S == vd.speed_kmh
        s == IF A > 0 /\ B = 0 /\ vd.gear \in driving_gears
               THEN RoundHalfEven(Min(4 * 3000, 4 * S + A * T), 4)
             ELSE IF B > 0
               THEN RoundHalfEven(Max(0, 2 * S - B * T), 2)
             ELSE IF vd.gear \in driving_gears /\ S > 0
               THEN RoundHalfEven(Max(0, S - 25 * T), 1)
             ELSE IF vd.gear \in {"N", "P"}
               THEN 0
             ELSE RoundHalfEven(S, 1)
    IN  [vd EXCEPT !.speed_kmh = s]

\* lines 65-67: odometer += speed/3600*dt, round(odometer, 3)
odometer_update(vd, T) ==
    IF vd.speed_kmh > 0
      THEN [vd EXCEPT !.odometer_km =
               10 * RoundHalfEven(72 * vd.odometer_km + 10 * vd.speed_kmh * T,
                                  720)]
      ELSE vd

\* lines 70-72: position random walk (draws in 1e-4 m), round(.., 3)
position_update(vd, n) ==
    [vd EXCEPT !.pos_x_m = RoundHalfEven(10 * vd.pos_x_m + n.ux, 10),
               !.pos_y_m = RoundHalfEven(10 * vd.pos_y_m + n.uy, 10),
               !.pos_z_m = RoundHalfEven(10 * vd.pos_z_m + n.uz, 10)]

\* lines 73-75: fresh angles (draws in hundredths of a degree), round(.., 1)
angles_update(vd, n) ==
    [vd EXCEPT !.angle_roll_deg = RoundHalfEven(n.roll, 10),
               !.angle_pitch_deg = RoundHalfEven(n.pitch, 10),
               !.angle_yaw_deg = RoundHalfEven(n.yaw, 10)]

\* lines 78-80: rates 23.40 + u, 23.40 + u, 166.7 + u (hundredths), round(.., 1)
rates_update(vd, n) ==
    [vd EXCEPT !.roll_rate_degs = RoundHalfEven(2340 + n.rroll, 10),
               !.pitch_rate_degs = RoundHalfEven(2340 + n.rpitch, 10),
               !.yaw_rate_degs = RoundHalfEven(16670 + n.ryaw, 10)]

\* lines 83-88: the final clamps
clamp_rpm(vd) == [vd EXCEPT !.rpm = Max(0, Min(8000, vd.rpm))]
clamp_speed_kmh(vd) ==
    [vd EXCEPT !.speed_kmh = Max(0, Min(3000, vd.speed_kmh))]
clamp_clutch_value(vd) ==
    [vd EXCEPT !.clutch_value = Max(0, Min(1000, vd.clutch_value))]
\* line 86 written as a copy of line 83 with only the target renamed
clamp_break_value_copied(vd) ==
    [vd EXCEPT !.break_value = Max(0, Min(8000, vd.rpm))]
clamp_break_value(vd) ==
    [vd EXCEPT !.break_value = Max(0, Min(1000, vd.break_value))]
\* line 87 without its upper bound
clamp_accel_value_unbounded(vd) ==
    [vd EXCEPT !.accel_value = Max(0, vd.accel_value)]
clamp_accel_value(vd) ==
    [vd EXCEPT !.accel_value = Max(0, Min(1000, vd.accel_value))]
clamp_steering_wheel_angle(vd) ==
    [vd EXCEPT !.steering_wheel_angle =
                   Max(-7800, Min(7800, vd.steering_wheel_angle))]

clamp_all(vd) ==
    clamp_steering_wheel_angle(clamp_accel_value(clamp_break_value(
        clamp_clutch_value(clamp_speed_kmh(clamp_rpm(vd))))))

\* lines 46-62 without the break_value assignment of line 52
maneuver_update_without_break(vd) ==
    LET p == all_maneuver_presets(vd.maneuver_name)
    IN  IF p # EmptyPreset
          THEN round_speed(apply_preset_steering(
                   apply_preset_speed(vd, p), p))
          ELSE round_speed(vd)

\* lines 46-62 when maneuver_active: the preset lookup, the assignments and
\* the rounding.  Reading maneuver_name raises AttributeError when the
\* attribute was never assigned.
maneuver_update(vd) ==
    LET p == all_maneuver_presets(vd.maneuver_name)
    IN  IF p # EmptyPreset
          THEN round_speed(apply_preset_break(apply_preset_steering(
                   apply_preset_speed(vd, p), p), p))
          ELSE round_speed(vd)

\* lines 34-80: the body executed when vehicle_started
started_body(vd, T, n) ==
    LET v1 == rpm_update(vd, T)
        v2 == IF v1.maneuver_active THEN maneuver_update(v1)
              ELSE speed_update(v1, T)
        v3 == odometer_update(v2, T)
    IN  rates_update(angles_update(position_update(v3, n), n), n)

\* simulate_vehicle_data that restarts the timer when it returns at line 28
simulate_vehicle_data_timing_noops(S, t, n) ==
    IF ~S.simulation_enabled \/ ~S.is_running \/ S.is_paused
      THEN [S |-> [S EXCEPT !.last_update_time = t], outcome |-> "noop"]
    ELSE
      LET T == t - S.last_update_time
          vd == S.vehicle_data
          S1 == [S EXCEPT !.last_update_time = t]
      IN  IF vd.vehicle_started /\ vd.maneuver_active
                /\ vd.maneuver_name = Absent
            THEN [S |-> [S1 EXCEPT !.vehicle_data = rpm_update(vd, T)],
                  outcome |-> "raised"]
          ELSE [S |-> [S1 EXCEPT !.vehicle_data =
                          clamp_all(IF vd.vehicle_started
                                      THEN started_body(vd, T, n)
                                      ELSE vd)],
                outcome |-> "returned"]

\* simulate_vehicle_data without the vehicle_started test of line 34
simulate_vehicle_data_when_off(S, t, n) ==
    IF ~S.simulation_enabled \/ ~S.is_running \/ S.is_paused
      THEN [S |-> S, outcome |-> "noop"]
    ELSE
      LET T == t - S.last_update_time
          vd == S.vehicle_data
          S1 == [S EXCEPT !.last_update_time = t]
      IN  IF vd.maneuver_active /\ vd.maneuver_name = Absent
            THEN [S |-> [S1 EXCEPT !.vehicle_data = rpm_update(vd, T)],
                  outcome |-> "raised"]
          ELSE [S |-> [S1 EXCEPT !.vehicle_data =
                          clamp_all(started_body(vd, T, n))],
                outcome |-> "returned"]

\* simulate_vehicle_data whose guard of line 27 does not test is_paused
simulate_vehicle_data_unpaused(S, t, n) ==
    IF ~S.simulation_enabled \/ ~S.is_running
      THEN [S |-> S, outcome |-> "noop"]
    ELSE
      LET T == t - S.last_update_time
          vd == S.vehicle_data
          S1 == [S EXCEPT !.last_update_time = t]
      IN  IF vd.vehicle_started /\ vd.maneuver_active
                /\ vd.maneuver_name = Absent
            THEN [S |-> [S1 EXCEPT !.vehicle_data = rpm_update(vd, T)],
                  outcome |-> "raised"]
          ELSE [S |-> [S1 EXCEPT !.vehicle_data =
                          clamp_all(IF vd.vehicle_started
                                      THEN started_body(vd, T, n)
                                      ELSE vd)],
                outcome |-> "returned"]

\* ControlHandler.simulate_vehicle_data on the handler state S at time t
\* with random draws n: the state afterwards and how the call ended
simulate_vehicle_data(S, t, n) ==
    IF ~S.simulation_enabled \/ ~S.is_running \/ S.is_paused
      THEN [S |-> S, outcome |-> "noop"]
    ELSE
      LET T == t - S.last_update_time
          vd == S.vehicle_data
          S1 == [S EXCEPT !.last_update_time = t]
      IN  IF vd.vehicle_started /\ vd.maneuver_active
                /\ vd.maneuver_name = Absent
            THEN [S |-> [S1 EXCEPT !.vehicle_data = rpm_update(vd, T)],
                  outcome |-> "raised"]
          ELSE [S |-> [S1 EXCEPT !.vehicle_data =
                          clamp_all(IF vd.vehicle_started
                                      THEN started_body(vd, T, n)
                                      ELSE vd)],
                outcome |-> "returned"]

(***************************************************************************)
(* The command surface of ControlHandler, as functions of the handler      *)
(* state S                                                                 *)
(***************************************************************************)
\* set_gear without the vehicle_started test
set_gear_unguarded(S, gear) == [S EXCEPT !.vehicle_data.gear = gear]

set_gear(S, gear) ==
    IF S.vehicle_data.vehicle_started \/ gear \in {"P", "N"}
      THEN [S EXCEPT !.vehicle_data.gear = gear]
      ELSE S

\* start_maneuver without the vehicle_started test
start_maneuver_unguarded(S, maneuver_name) ==
    [S EXCEPT !.vehicle_data.maneuver_active = TRUE,
              !.vehicle_data.maneuver_name = maneuver_name]

start_maneuver(S, maneuver_name) ==
    IF S.vehicle_data.vehicle_started
      THEN [S EXCEPT !.vehicle_data.maneuver_active = TRUE,
                     !.vehicle_data.maneuver_name = maneuver_name]
      ELSE S

\* stop_maneuver that also releases the brake
stop_maneuver_releasing_brake(S) ==
    [S EXCEPT !.vehicle_data.maneuver_active = FALSE,
              !.vehicle_data.maneuver_name = NoneVal,
              !.vehicle_data.break_value = 0]

stop_maneuver(S) ==
    [S EXCEPT !.vehicle_data.maneuver_active = FALSE,
              !.vehicle_data.maneuver_name = NoneVal]

\* reset_vehicle without the setattr loop
reset_vehicle_without_loop(S, initial_data_dict, t) ==
    [S EXCEPT !.vehicle_data.vehicle_started = FALSE,
              !.vehicle_data.maneuver_active = FALSE,
              !.vehicle_data.maneuver_name = NoneVal,
              !.is_running = TRUE,
              !.is_paused = FALSE,
              !.last_update_time = t]

\* reset_vehicle without the assignment of _last_update_time
reset_vehicle_without_timer(S, initial_data_dict, t) ==
    LET vd == S.vehicle_data
        set == [f \in DOMAIN vd |->
                   IF f \in DOMAIN initial_data_dict
                     THEN initial_data_dict[f] ELSE vd[f]]
    IN  [S EXCEPT !.vehicle_data =
                      [set EXCEPT !.vehicle_started = FALSE,
                                  !.maneuver_active = FALSE,
                                  !.maneuver_name = NoneVal],
                  !.is_running = TRUE,
                  !.is_paused = FALSE]

\* setattr for every key of the dict, then the forced fields
reset_vehicle(S, initial_data_dict, t) ==
    LET vd == S.vehicle_data
        set == [f \in DOMAIN vd |->
                   IF f \in DOMAIN initial_data_dict
                     THEN initial_data_dict[f] ELSE vd[f]]
    IN  [S EXCEPT !.vehicle_data =
                      [set EXCEPT !.vehicle_started = FALSE,
                                  !.maneuver_active = FALSE,
                                  !.maneuver_name = NoneVal],
                  !.is_running = TRUE,
                  !.is_paused = FALSE,
                  !.last_update_time = t]

toggle_pause(S) == [S EXCEPT !.is_paused = ~S.is_paused]

\* stop_simulation without the assignment of gear
stop_simulation_keeps_gear(S) ==
    [S EXCEPT !.is_running = FALSE,
              !.is_paused = FALSE,
              !.vehicle_data.vehicle_started = FALSE,
              !.vehicle_data.rpm = 0,
              !.vehicle_data.speed_kmh = 0]

\* stop_simulation without the assignment of is_running
stop_simulation_keeps_running(S) ==
    [S EXCEPT !.is_paused = FALSE,
              !.vehicle_data.vehicle_started = FALSE,
              !.vehicle_data.rpm = 0,
              !.vehicle_data.speed_kmh = 0,
              !.vehicle_data.gear = "P"]

stop_simulation(S) ==
    [S EXCEPT !.is_running = FALSE,
              !.is_paused = FALSE,
              !.vehicle_data.vehicle_started = FALSE,
              !.vehicle_data.rpm = 0,
              !.vehicle_data.speed_kmh = 0,
              !.vehicle_data.gear = "P"]

set_clutch_value(S, value) == [S EXCEPT !.vehicle_data.clutch_value = value]
set_break_value(S, value) == [S EXCEPT !.vehicle_data.break_value = value]
\* set_accel_value that clamps at set time
set_accel_value_clamped(S, value) ==
    [S EXCEPT !.vehicle_data.accel_value = Max(0, Min(1000, value))]
set_accel_value(S, value) == [S EXCEPT !.vehicle_data.accel_value = value]
set_steering_wheel_angle(S, angle) ==
    [S EXCEPT !.vehicle_data.steering_wheel_angle = angle]

\* toggle_vehicle_power that leaves the gear when turning off
toggle_vehicle_power_keeps_gear(S) ==
    IF S.vehicle_data.vehicle_started
      THEN [S EXCEPT !.vehicle_data.vehicle_started = FALSE,
                     !.vehicle_data.rpm = 0,
                     !.vehicle_data.speed_kmh = 0]
      ELSE [S EXCEPT !.vehicle_data.vehicle_started = TRUE]

toggle_vehicle_power(S) ==
    IF S.vehicle_data.vehicle_started
      THEN [S EXCEPT !.vehicle_data.vehicle_started = FALSE,
                     !.vehicle_data.rpm = 0,
                     !.vehicle_data.speed_kmh = 0,
                     !.vehicle_data.gear = "P"]
      ELSE [S EXCEPT !.vehicle_data.vehicle_started = TRUE]

\* VehicleControlPanel.toggle_simulation
toggle_simulation(S) ==
    [S EXCEPT !.simulation_enabled = ~S.simulation_enabled]

(***************************************************************************)
(* Inputs explored                                                         *)
(***************************************************************************)
\* draws of random.uniform within the ranges of lines 70-80
\* (ux, uy, uz in 1e-4 m; the others in hundredths)
Noise ==
    { [ux |-> 500, uy |-> -500, uz |-> 4,
       roll |-> -500, pitch |-> 123, yaw |-> 18000,
       rroll |-> 100, rpitch |-> -100, ryaw |-> 1000],
      [ux |-> -500, uy |-> 15, uz |-> 500,
       roll |-> 500, pitch |-> -500, yaw |-> -18000,
       rroll |-> -100, rpitch |-> 5, ryaw |-> -1000] }

NoNoise == [ux |-> 0, uy |-> 0, uz |-> 0, roll |-> 0, pitch |-> 0, yaw |-> 0,
            rroll |-> 0, rpitch |-> 0, ryaw |-> 0]

GearArgs == {"P", "N", "D", "2", "X"}
ManeuverArgs == {"Standard Cruise", "Sharp Turn", "Emergency Stop", "Drift",
                 NoneVal}
PedalArgs == {-50, 0, 500, 1200}
SteeringArgs == {-9000, -600, 9000}

\* vehicle_data records found in configuration files
vd_drive ==
    [default_vehicle_data EXCEPT !.vehicle_started = TRUE, !.gear = "D",
        !.accel_value = 500, !.rpm = 0, !.speed_kmh = 0]
vd_brake ==
    [default_vehicle_data EXCEPT !.vehicle_started = TRUE, !.gear = "D",
        !.accel_value = 500, !.break_value = 200, !.rpm = 3000,
        !.speed_kmh = 1200, !.odometer_km = 125, !.steering_wheel_angle = -600]
vd_cap ==
    [default_vehicle_data EXCEPT !.vehicle_started = TRUE, !.gear = "3",
        !.accel_value = 1000, !.rpm = 7990, !.speed_kmh = 2995,
        !.odometer_km = 12340, !.clutch_value = 1000]
vd_out_of_range ==
    [default_vehicle_data EXCEPT !.rpm = 9000, !.speed_kmh = 3500,
        !.clutch_value = 1200, !.break_value = -50, !.accel_value = 1500,
        !.steering_wheel_angle = -9000]
vd_maneuver ==
    [default_vehicle_data EXCEPT !.vehicle_started = TRUE, !.gear = "D",
        !.maneuver_active = TRUE, !.accel_value = 1200]
vd_coast ==
    [default_vehicle_data EXCEPT !.vehicle_started = TRUE, !.gear = "D",
        !.accel_value = 0, !.odometer_km = 4]
vd_neutral ==
    [default_vehicle_data EXCEPT !.vehicle_started = TRUE]
vd_creep ==
    [default_vehicle_data EXCEPT !.vehicle_started = TRUE, !.gear = "D"]

Configs ==
    { default_config,
      [default_config EXCEPT !.simulation_enabled = FALSE],
      [default_config EXCEPT !.vehicle_data = vd_drive],
      [default_config EXCEPT !.vehicle_data = vd_brake],
      [default_config EXCEPT !.vehicle_data = vd_cap],
      [default_config EXCEPT !.vehicle_data = vd_out_of_range],
      [default_config EXCEPT !.vehicle_data = vd_maneuver],
      [default_config EXCEPT !.vehicle_data = vd_coast],
      [default_config EXCEPT !.vehicle_data = vd_neutral],
      [default_config EXCEPT !.vehicle_data = vd_creep] }

\* records handed to reset_vehicle
InitialRecords ==
    { default_vehicle_data,
      [vd_brake EXCEPT !.maneuver_active = TRUE, !.pos_x_m = 340,
                       !.angle_yaw_deg = 900, !.yaw_rate_degs = 20],
      vd_out_of_range }

(***************************************************************************)
(* State                                                                   *)
(***************************************************************************)
\* the ControlHandler and its VehicleData as one value
Cur ==
    [vehicle_data |-> vehicle_data,
     simulation_enabled |-> simulation_enabled,
     is_running |-> is_running,
     is_paused |-> is_paused,
     last_update_time |-> last_update_time]

Install(S) ==
    /\ vehicle_data' = S.vehicle_data
    /\ simulation_enabled' = S.simulation_enabled
    /\ is_running' = S.is_running
    /\ is_paused' = S.is_paused
    /\ last_update_time' = S.last_update_time

\* VehicleControlPanel.__init__, lines 37-45, at time t
construct(cfg, t) ==
    [vehicle_data |->
         VehicleData([cfg.vehicle_data EXCEPT !.pos_x_m = 340,
                          !.pos_y_m = 450, !.pos_z_m = 560]),
     simulation_enabled |-> cfg.simulation_enabled,
     is_running |-> TRUE,
     is_paused |-> FALSE,
     last_update_time |-> t]

NoRace == [on |-> FALSE, start |-> << >>, cmd |-> << >>, stepped |-> FALSE]

InitWith(S, t, r) ==
    /\ now = t
    /\ vehicle_data = S.vehicle_data
    /\ simulation_enabled = S.simulation_enabled
    /\ is_running = S.is_running
    /\ is_paused = S.is_paused
    /\ last_update_time = S.last_update_time
    /\ pc = "idle"
    /\ delta_time = 0
    /\ preset = EmptyPreset
    /\ noise = NoNoise
    /\ last = [name |-> "init", arg |-> << >>, outcome |-> "returned",
               pre |-> S, t |-> t]
    /\ last2 = [name |-> "init", arg |-> << >>, outcome |-> "returned",
                pre |-> S, t |-> t]
    /\ nops = 0
    /\ race = r

\* VehicleControlPanel.__init__ on the files F0: load_config(), the position
\* update on the dict it returned, and start_sim_thread
startup(F0) ==
    LET L == load_config(F0, default_config, NoneVal)
        cfg == [L.config EXCEPT !.vehicle_data =
                   [@ EXCEPT !.pos_x_m = 340, !.pos_y_m = 450,
                             !.pos_z_m = 560]]
    IN  /\ fs = L.fs
        /\ config = cfg
        /\ manager_default_config = IF L.is_default THEN cfg
                                    ELSE default_config
        /\ config_is_default = L.is_default
        /\ sim_thread_running = TRUE
        /\ steps_after_stop = 0

\* the files when data/config.json holds config
FilesWith(cfg) ==
    [p \in FilePaths |-> IF p = config_file THEN JsonFile(cfg) ELSE NoFile]

Init ==
    \E cfg \in Configs :
        /\ InitWith(construct(cfg, 0), 0, NoRace)
        /\ startup(FilesWith(cfg))

\* bookkeeping of an operation: what ran, with what, from which state
Record(name, arg, outcome, t) ==
    /\ last' = [name |-> name, arg |-> arg, outcome |-> outcome,
                pre |-> Cur, t |-> t]
    /\ last2' = last
    /\ nops' = nops + 1

\* a command of the GUI thread that does not read the clock
Command(name, arg, S) ==
    /\ sim_thread_running
    /\ nops < MaxOps
    /\ Install(S)
    /\ Record(name, arg, "returned", now)
    /\ UNCHANGED <<now, pc, delta_time, preset, noise, race>>
    /\ UNCHANGED panel

(***************************************************************************)
(* Operations, each executed as a whole                                    *)
(***************************************************************************)
\* one iteration of _run_simulation: d half seconds pass, then the step
Step ==
    /\ pc = "idle"
    /\ sim_thread_running
    /\ nops < MaxOps
    /\ \E d \in Dts, n \in Noise :
         LET r == simulate_vehicle_data(Cur, now + d, n)
         IN  /\ now' = now + d
             /\ Install(r.S)
             /\ pc' = IF r.outcome = "raised" THEN "dead" ELSE "idle"
             /\ Record("step", d, r.outcome, now + d)
    /\ UNCHANGED <<delta_time, preset, noise, race>>
    /\ UNCHANGED panel

SetGear == \E g \in GearArgs : Command("set_gear", g, set_gear(Cur, g))

StartManeuver ==
    \E m \in ManeuverArgs : Command("start_maneuver", m, start_maneuver(Cur, m))

StopManeuver == Command("stop_maneuver", << >>, stop_maneuver(Cur))

\* d half seconds pass, then reset_vehicle reads the clock
ResetVehicle ==
    /\ sim_thread_running
    /\ nops < MaxOps
    /\ \E d \in Dts, rec \in InitialRecords :
         /\ now' = now + d
         /\ Install(reset_vehicle(Cur, rec, now + d))
         /\ Record("reset_vehicle", rec, "returned", now + d)
    /\ UNCHANGED <<pc, delta_time, preset, noise, race>>
    /\ UNCHANGED panel

TogglePause == Command("toggle_pause", << >>, toggle_pause(Cur))

StopSimulation == Command("stop_simulation", << >>, stop_simulation(Cur))

SetClutch ==
    \E v \in PedalArgs : Command("set_clutch_value", v, set_clutch_value(Cur, v))

SetBreak ==
    \E v \in PedalArgs : Command("set_break_value", v, set_break_value(Cur, v))

SetAccel ==
    \E v \in PedalArgs : Command("set_accel_value", v, set_accel_value(Cur, v))

SetSteering ==
    \E a \in SteeringArgs :
        Command("set_steering_wheel_angle", a, set_steering_wheel_angle(Cur, a))

TogglePower ==
    Command("toggle_vehicle_power", << >>, toggle_vehicle_power(Cur))

ToggleSimulation == Command("toggle_simulation", << >>, toggle_simulation(Cur))

Next ==
    \/ Step
    \/ SetGear
    \/ StartManeuver
    \/ StopManeuver
    \/ ResetVehicle
    \/ TogglePause
    \/ StopSimulation
    \/ SetClutch
    \/ SetBreak
    \/ SetAccel
    \/ SetSteering
    \/ TogglePower
    \/ ToggleSimulation

Spec == Init /\ [][Next]_vars

(***************************************************************************)
(* The panel once the Stop button has been pressed: construction, then     *)
(* stop_simulation, then MaxOps further operations.                        *)
(***************************************************************************)
InitStopped ==
    \E cfg \in Configs :
        LET S0 == construct(cfg, 0)
            S == stop_simulation(S0)
        IN  /\ now = 0
            /\ vehicle_data = S.vehicle_data
            /\ simulation_enabled = S.simulation_enabled
            /\ is_running = S.is_running
            /\ is_paused = S.is_paused
            /\ last_update_time = S.last_update_time
            /\ pc = "idle"
            /\ delta_time = 0
            /\ preset = EmptyPreset
            /\ noise = NoNoise
            /\ last = [name |-> "stop_simulation", arg |-> << >>,
                       outcome |-> "returned", pre |-> S0, t |-> 0]
            /\ last2 = [name |-> "init", arg |-> << >>,
                        outcome |-> "returned", pre |-> S0, t |-> 0]
            /\ nops = 0
            /\ race = NoRace
            /\ startup(FilesWith(cfg))

SpecStopped == InitStopped /\ [][Next]_vars

(***************************************************************************)
(* The panel with its configuration files: Save and Load Configuration,    *)
(* closing the window, and the Reset button, next to the step and the      *)
(* commands that decide what a saved record holds.                         *)
(***************************************************************************)
\* what data/config.json and the file picked in a dialog hold at start-up
InitialFiles ==
    { [p \in FilePaths |-> IF p = config_file THEN a ELSE b] :
        a \in {NoFile, MalformedFile, JsonFile(default_config),
               JsonFile([default_config EXCEPT !.vehicle_data = vd_drive])},
        b \in {NoFile, MalformedFile,
               JsonFile([default_config EXCEPT !.vehicle_data = vd_brake,
                                               !.debug_mode = TRUE])} }

InitConfig ==
    \E F0 \in InitialFiles :
        /\ startup(F0)
        /\ InitWith(construct(load_config(F0, default_config, NoneVal).config,
                              0), 0, NoRace)

\* an assignment through self.config: it lands in the ConfigManager's
\* default_config as well when the two are one object
SetConfig(cfg) ==
    /\ config' = cfg
    /\ manager_default_config' =
           IF config_is_default THEN cfg ELSE manager_default_config
    /\ UNCHANGED config_is_default

\* bookkeeping of an operation of the panel that leaves the clock alone
PanelOp(name, arg) ==
    /\ sim_thread_running
    /\ nops < MaxConfigOps
    /\ Record(name, arg, "returned", now)
    /\ UNCHANGED <<now, pc, delta_time, preset, noise, race,
                   steps_after_stop>>

\* VehicleControlPanel.save_config_dialog with the file name picked
SaveConfigDialog ==
    \E filename \in FilePaths :
        LET cfg == [config EXCEPT
                       !.vehicle_data = saved_vehicle_data(vehicle_data)]
        IN  /\ PanelOp("save_config_dialog", filename)
            /\ SetConfig(cfg)
            /\ fs' = save_config(fs, cfg, filename)
            /\ UNCHANGED <<vehicle_data, simulation_enabled, is_running,
                           is_paused, last_update_time, sim_thread_running>>

\* VehicleControlPanel.load_config_dialog with the file name picked
LoadConfigDialog ==
    \E filename \in FilePaths :
        LET L == load_config(fs, manager_default_config, filename)
        IN  /\ PanelOp("load_config_dialog",
                       [file_path |-> filename, files |-> fs,
                        default_config |-> manager_default_config,
                        returned |-> L.config])
            /\ fs' = L.fs
            /\ SetConfig(dict_update(config, L.config))
            /\ vehicle_data' = VehicleData(L.config.vehicle_data)
            /\ UNCHANGED <<simulation_enabled, is_running, is_paused,
                           last_update_time, sim_thread_running>>

\* VehicleControlPanel.on_closing, the quit confirmed
OnClosing ==
    LET cfg == [config EXCEPT
                   !.vehicle_data = saved_vehicle_data(vehicle_data),
                   !.simulation_enabled = simulation_enabled]
    IN  /\ PanelOp("on_closing", << >>)
        /\ sim_thread_running' = FALSE
        /\ SetConfig(cfg)
        /\ fs' = save_config(fs, cfg, NoneVal)
        /\ UNCHANGED <<vehicle_data, simulation_enabled, is_running,
                       is_paused, last_update_time>>

\* VehicleControlPanel.reset_vehicle: the Reset button hands the
\* ConfigManager's default_config["vehicle_data"] to the handler
ResetButton ==
    /\ sim_thread_running
    /\ nops < MaxConfigOps
    /\ \E d \in Dts :
         /\ now' = now + d
         /\ Install(reset_vehicle(Cur, manager_default_config.vehicle_data,
                                  now + d))
         /\ Record("reset_vehicle", manager_default_config.vehicle_data,
                   "returned", now + d)
    /\ UNCHANGED <<pc, delta_time, preset, noise, race>>
    /\ UNCHANGED panel

ConfigNext ==
    \/ SaveConfigDialog
    \/ LoadConfigDialog
    \/ OnClosing
    \/ ResetButton
    \/ Step
    \/ StartManeuver
    \/ StopManeuver
    \/ TogglePower

SpecConfig == InitConfig /\ [][ConfigNext]_vars

(***************************************************************************)
(* _run_simulation statement by statement: the test of the flag (line 429),*)
(* the call of the step (line 430, the step as a whole) and the sleep      *)
(* (line 431), next to the GUI thread that closes the window.  pc is       *)
(* "while" before the test, "idle" before the call, "sleep" before the     *)
(* sleep, "exited" once the loop has ended, "dead" after an exception.     *)
(* Construction leaves the thread before its first call: start_sim_thread  *)
(* sets the flag before it starts the thread.                              *)
(***************************************************************************)
\* line 429 with the flag never read
LoopWhileIgnoringFlag ==
    /\ pc = "while"
    /\ pc' = "idle"
    /\ UNCHANGED <<vehicle_data, simulation_enabled, is_running, is_paused,
                   last_update_time, now, delta_time, preset, noise,
                   last, last2, nops, race>>
    /\ UNCHANGED panel

\* line 429
LoopWhile ==
    /\ pc = "while"
    /\ pc' = IF sim_thread_running THEN "idle" ELSE "exited"
    /\ UNCHANGED <<vehicle_data, simulation_enabled, is_running, is_paused,
                   last_update_time, now, delta_time, preset, noise,
                   last, last2, nops, race>>
    /\ UNCHANGED panel

\* line 430; MaxOps bounds the calls made while the window is open
LoopCall ==
    /\ pc = "idle"
    /\ nops < MaxOps \/ ~sim_thread_running
    /\ \E n \in Noise :
         LET r == simulate_vehicle_data(Cur, now, n)
         IN  /\ Install(r.S)
             /\ pc' = IF r.outcome = "raised" THEN "dead" ELSE "sleep"
             /\ Record("step", now - last_update_time, r.outcome, now)
    /\ steps_after_stop' =
           IF sim_thread_running THEN steps_after_stop
           ELSE steps_after_stop + 1
    /\ UNCHANGED <<now, delta_time, preset, noise, race, fs, config,
                   manager_default_config, config_is_default,
                   sim_thread_running>>

\* line 431: the sleep returns after d half seconds
LoopSleep ==
    /\ pc = "sleep"
    /\ pc' = "while"
    /\ \E d \in Dts : now' = now + d
    /\ UNCHANGED <<vehicle_data, simulation_enabled, is_running, is_paused,
                   last_update_time, delta_time, preset, noise,
                   last, last2, nops, race>>
    /\ UNCHANGED panel

\* a step of the simulation thread, told by what it does to pc: LoopWhile,
\* LoopCall and LoopSleep are the only actions that change pc, each of them
\* changes it, and one of them can be taken wherever the thread stands
\* short of its end (the call within the bound on calls)
SimThread ==
    /\ pc \in {"while", "idle", "sleep"}
    /\ pc = "idle" => (nops < MaxOps \/ ~sim_thread_running)
    /\ pc' \in {"while", "idle", "sleep", "exited", "dead"} \ {pc}

LoopNext ==
    \/ LoopWhile
    \/ LoopCall
    \/ LoopSleep
    \/ OnClosing
    \/ TogglePause
    \/ TogglePower
    \/ StartManeuver

\* the thread is scheduled again and again: the interpreter hands it the
\* processor, the sleep returns and the step has no loop of its own
SpecLoop == Init /\ [][LoopNext]_vars /\ WF_pc(SimThread)

(***************************************************************************)
(* validate, called by the periodic refresh of the debug panel, on         *)
(* VehicleData built from records whose six checked fields lie on and      *)
(* next to the bounds, the other fields being the defaults or not.         *)
(***************************************************************************)
\* the fields that validate does not read, with unusual values
vd_unusual ==
    [default_vehicle_data EXCEPT !.gear = "X", !.odometer_km = -50,
        !.angle_roll_deg = 99990, !.angle_pitch_deg = -99990,
        !.angle_yaw_deg = 7200, !.roll_rate_degs = -10,
        !.pitch_rate_degs = 100000, !.yaw_rate_degs = 0,
        !.vehicle_started = TRUE, !.maneuver_active = TRUE]

BoundaryRecords ==
    { [base EXCEPT !.rpm = r, !.speed_kmh = s, !.steering_wheel_angle = w,
                   !.clutch_value = c, !.break_value = b, !.accel_value = a] :
        base \in {default_vehicle_data, vd_unusual},
        r \in {-1, 0, 8000, 8001},
        s \in {-1, 0, 3000, 3001},
        w \in {-7801, -7800, 7800, 7801},
        c \in {-1, 0, 1000, 1001},
        b \in {-1, 0, 1000, 1001},
        a \in {-1, 0, 1000, 1001} }

InitValidate ==
    \E vd \in BoundaryRecords :
        LET cfg == [default_config EXCEPT !.vehicle_data = vd]
        IN  /\ InitWith(construct(cfg, 0), 0, NoRace)
            /\ startup(FilesWith(cfg))

\* update_gui, debug mode: self.vehicle_data.validate(); the result is kept
\* as the outcome
Validate ==
    /\ sim_thread_running
    /\ nops < MaxOps
    /\ Record("validate", << >>,
              IF validate(vehicle_data) THEN "True" ELSE "False", now)
    /\ UNCHANGED <<vehicle_data, simulation_enabled, is_running, is_paused,
                   last_update_time, now, pc, delta_time, preset, noise,
                   race>>
    /\ UNCHANGED panel

ValidateNext == Validate \/ TogglePower

SpecValidate == InitValidate /\ [][ValidateNext]_vars

(***************************************************************************)
(* The step statement by statement, racing one command of the GUI thread.  *)
(* The source takes no lock: the simulation thread runs                    *)
(* simulate_vehicle_data while the GUI thread runs a command on the same   *)
(* VehicleData.  Each statement is taken as atomic and each command as a   *)
(* whole, a subset of the interleavings the interpreter can produce.       *)
(***************************************************************************)
\* a command applied to the handler state S at time t
ApplyCmd(S, c, t) ==
    CASE c.name = "set_gear" -> set_gear(S, c.arg)
      [] c.name = "start_maneuver" -> start_maneuver(S, c.arg)
      [] c.name = "stop_maneuver" -> stop_maneuver(S)
      [] c.name = "reset_vehicle" -> reset_vehicle(S, c.arg, t)
      [] c.name = "stop_simulation" -> stop_simulation(S)
      [] c.name = "set_clutch_value" -> set_clutch_value(S, c.arg)
      [] c.name = "set_break_value" -> set_break_value(S, c.arg)
      [] c.name = "set_accel_value" -> set_accel_value(S, c.arg)
      [] c.name = "set_steering_wheel_angle" ->
            set_steering_wheel_angle(S, c.arg)
      [] c.name = "toggle_vehicle_power" -> toggle_vehicle_power(S)

\* construction, then d half seconds before the step and the command meet
RaceInit ==
    \E cfg \in Configs, d \in Dts :
        /\ InitWith(construct(cfg, 0), d,
                    [on |-> TRUE, start |-> construct(cfg, 0),
                     cmd |-> << >>, stepped |-> FALSE])
        /\ startup(FilesWith(cfg))

\* the GUI thread runs its command, wherever the step is
RaceDo(c) ==
    /\ race.on
    /\ race.cmd = << >>
    /\ Install(ApplyCmd(Cur, c, now))
    /\ race' = [race EXCEPT !.cmd = <<c>>]
    /\ UNCHANGED <<now, pc, delta_time, preset, noise, last, last2, nops>>
    /\ UNCHANGED panel

RaceCommand ==
    \/ \E g \in GearArgs : RaceDo([name |-> "set_gear", arg |-> g])
    \/ \E m \in ManeuverArgs : RaceDo([name |-> "start_maneuver", arg |-> m])
    \/ RaceDo([name |-> "stop_maneuver", arg |-> << >>])
    \/ \E rec \in InitialRecords :
           RaceDo([name |-> "reset_vehicle", arg |-> rec])
    \/ RaceDo([name |-> "stop_simulation", arg |-> << >>])
    \/ \E v \in PedalArgs : RaceDo([name |-> "set_clutch_value", arg |-> v])
    \/ \E v \in PedalArgs : RaceDo([name |-> "set_break_value", arg |-> v])
    \/ \E v \in PedalArgs : RaceDo([name |-> "set_accel_value", arg |-> v])
    \/ \E a \in SteeringArgs :
           RaceDo([name |-> "set_steering_wheel_angle", arg |-> a])
    \/ RaceDo([name |-> "toggle_vehicle_power", arg |-> << >>])

\* a statement of the step that assigns VehicleData
Stmt(from, to, vd) ==
    /\ pc = from
    /\ pc' = to
    /\ vehicle_data' = vd
    /\ UNCHANGED <<simulation_enabled, is_running, is_paused,
                   last_update_time, now, delta_time, preset, noise,
                   last, last2, nops, race>>
    /\ UNCHANGED panel

\* a branch of the step
Branch(from, to) ==
    /\ pc = from
    /\ pc' = to
    /\ UNCHANGED <<vehicle_data, simulation_enabled, is_running, is_paused,
                   last_update_time, now, delta_time, preset, noise,
                   last, last2, nops, race>>
    /\ UNCHANGED panel

\* line 27: the call and its early return; the draws of this call are fixed
L27 ==
    /\ pc = "idle"
    /\ race.on
    /\ ~race.stepped
    /\ IF ~simulation_enabled \/ ~is_running \/ is_paused
         THEN /\ pc' = "idle"
              /\ race' = [race EXCEPT !.stepped = TRUE]
              /\ noise' = noise
         ELSE /\ pc' = "L30"
              /\ race' = race
              /\ noise' \in Noise
    /\ UNCHANGED <<vehicle_data, simulation_enabled, is_running, is_paused,
                   last_update_time, now, delta_time, preset,
                   last, last2, nops>>
    /\ UNCHANGED panel

\* lines 30-32
L30 ==
    /\ pc = "L30"
    /\ delta_time' = now - last_update_time
    /\ last_update_time' = now
    /\ pc' = "L34"
    /\ UNCHANGED <<vehicle_data, simulation_enabled, is_running, is_paused,
                   now, preset, noise, last, last2, nops, race>>
    /\ UNCHANGED panel

L34 == Branch("L34", IF vehicle_data.vehicle_started THEN "L36" ELSE "L83")

L36 == Stmt("L36", "L46", rpm_update(vehicle_data, delta_time))

L46 == Branch("L46", IF vehicle_data.maneuver_active THEN "L48" ELSE "L53")

\* lines 48-49: AttributeError ends the thread when maneuver_name is absent
L48 ==
    /\ pc = "L48"
    /\ IF vehicle_data.maneuver_name = Absent
         THEN /\ pc' = "dead"
              /\ preset' = preset
         ELSE /\ preset' = all_maneuver_presets(vehicle_data.maneuver_name)
              /\ pc' = IF preset' # EmptyPreset THEN "L50" ELSE "L62"
    /\ UNCHANGED <<vehicle_data, simulation_enabled, is_running, is_paused,
                   last_update_time, now, delta_time, noise,
                   last, last2, nops, race>>
    /\ UNCHANGED panel

L50 == Stmt("L50", "L51", apply_preset_speed(vehicle_data, preset))
L51 == Stmt("L51", "L52", apply_preset_steering(vehicle_data, preset))
L52 == Stmt("L52", "L62", apply_preset_break(vehicle_data, preset))
L53 == Stmt("L53", "L65", speed_update(vehicle_data, delta_time))
L62 == Stmt("L62", "L65", round_speed(vehicle_data))
L65 == Stmt("L65", "L70", odometer_update(vehicle_data, delta_time))
L70 == Stmt("L70", "L73", position_update(vehicle_data, noise))
L73 == Stmt("L73", "L78", angles_update(vehicle_data, noise))
L78 == Stmt("L78", "L83", rates_update(vehicle_data, noise))
L83 == Stmt("L83", "L84", clamp_rpm(vehicle_data))
L84 == Stmt("L84", "L85", clamp_speed_kmh(vehicle_data))
L85 == Stmt("L85", "L86", clamp_clutch_value(vehicle_data))
L86 == Stmt("L86", "L87", clamp_break_value(vehicle_data))
L87 == Stmt("L87", "L88", clamp_accel_value(vehicle_data))

\* line 88 and the return
L88 ==
    /\ pc = "L88"
    /\ pc' = "idle"
    /\ vehicle_data' = clamp_steering_wheel_angle(vehicle_data)
    /\ delta_time' = 0
    /\ preset' = EmptyPreset
    /\ race' = [race EXCEPT !.stepped = TRUE]
    /\ UNCHANGED <<simulation_enabled, is_running, is_paused,
                   last_update_time, now, noise, last, last2, nops>>
    /\ UNCHANGED panel

RaceNext ==
    \/ RaceCommand
    \/ L27 \/ L30 \/ L34 \/ L36 \/ L46 \/ L48 \/ L50 \/ L51 \/ L52 \/ L53
    \/ L62 \/ L65 \/ L70 \/ L73 \/ L78 \/ L83 \/ L84 \/ L85 \/ L86 \/ L87
    \/ L88

SpecRace == RaceInit /\ [][RaceNext]_vars

(***************************************************************************)
(* The panel some way into a drive: it starts from the default             *)
(* configuration, has run up to three of the operations below, and is      *)
(* reset only through the Reset button, that is to the ConfigManager's     *)
(* default record.                                                         *)
(***************************************************************************)
\* the operations that lead to the states the exploration starts from
EarlierOperations ==
    { [name |-> "toggle_vehicle_power", arg |-> << >>],
      [name |-> "set_gear", arg |-> "D"],
      [name |-> "start_maneuver", arg |-> "Emergency Stop"],
      [name |-> "start_maneuver", arg |-> "Sharp Turn"],
      [name |-> "stop_simulation", arg |-> << >>],
      [name |-> "step", arg |-> << >>] }

\* the handler state S after the operation c, the clock still at 0
After(S, c) ==
    IF c.name = "step"
      THEN simulate_vehicle_data(S, 0, CHOOSE n \in Noise : n.ux > 0).S
      ELSE ApplyCmd(S, c, 0)

\* the states of X and those one operation later
OneLater(X) == X \cup { After(S, c) : S \in X, c \in EarlierOperations }

\* the default vehicle powered on, put in D, in an Emergency Stop, stepped
emergency_stopped ==
    LET S0 == construct(default_config, 0)
        S1 == After(S0, [name |-> "toggle_vehicle_power", arg |-> << >>])
        S2 == After(S1, [name |-> "set_gear", arg |-> "D"])
        S3 == After(S2, [name |-> "start_maneuver", arg |-> "Emergency Stop"])
    IN  After(S3, [name |-> "step", arg |-> << >>])

InitDriven ==
    \E S \in OneLater(OneLater(OneLater({construct(default_config, 0)})))
              \cup {emergency_stopped} :
        /\ InitWith(S, 0, NoRace)
        /\ startup(FilesWith(default_config))

DrivenNext ==
    \/ Step
    \/ SetGear
    \/ StartManeuver
    \/ StopManeuver
    \/ ResetButton
    \/ StopSimulation
    \/ SetClutch
    \/ SetBreak
    \/ SetAccel
    \/ SetSteering
    \/ TogglePower

SpecDriven == InitDriven /\ [][DrivenNext]_vars

(***************************************************************************)
(* The panel held back: constructed at time 0, then paused or disabled,    *)
(* with d half seconds gone by in which every call of the step returned at *)
(* line 28.                                                                *)
(***************************************************************************)
InitHeld ==
    \E cfg \in Configs, d \in Dts :
        \E S \in {toggle_pause(construct(cfg, 0)),
                  toggle_simulation(construct(cfg, 0))} :
            /\ simulate_vehicle_data(S, d, NoNoise).outcome = "noop"
            /\ InitWith(simulate_vehicle_data(S, d, NoNoise).S, d, NoRace)
            /\ startup(FilesWith(cfg))

HeldNext ==
    \/ Step
    \/ TogglePause
    \/ ToggleSimulation
    \/ ResetVehicle
    \/ SetAccel
    \/ TogglePower

SpecHeld == InitHeld /\ [][HeldNext]_vars

(***************************************************************************)
(* Braking to a halt: a started vehicle with no maneuver and the brake     *)
(* held, and _run_simulation calling the step again and again, each call   *)
(* finding the clock the same delta_time after the previous one.  The step *)
(* reads the clock only through the difference of line 31, so time is      *)
(* counted from the previous call: now and _last_update_time keep their    *)
(* value and the step is given a timer delta_time before now.              *)
(***************************************************************************)
\* started vehicles in D, slow enough for the odometer of line 66 to gain
\* less than its rounding while the brake is held
BrakingRecords ==
    { [vd_brake EXCEPT !.break_value = b, !.accel_value = a,
                       !.speed_kmh = v, !.rpm = r, !.odometer_km = 0] :
        b \in {1, 200}, a \in {0, 500}, v \in {7, 12, 30}, r \in {3, 1500} }

\* draws of random.uniform that the rounding of lines 70-72 absorbs
QuietNoise ==
    { [ux |-> 4, uy |-> -4, uz |-> 0,
       roll |-> -500, pitch |-> 123, yaw |-> 18000,
       rroll |-> 100, rpitch |-> -100, ryaw |-> 1000],
      [ux |-> -4, uy |-> 0, uz |-> 4,
       roll |-> 500, pitch |-> -500, yaw |-> -18000,
       rroll |-> -100, rpitch |-> 5, ryaw |-> -1000] }

InitBraking ==
    \E vd \in BrakingRecords, d \in Dts \ {0} :
        LET cfg == [default_config EXCEPT !.vehicle_data = vd]
            S == construct(cfg, 0)
        IN  /\ now = 0
            /\ vehicle_data = S.vehicle_data
            /\ simulation_enabled = S.simulation_enabled
            /\ is_running = S.is_running
            /\ is_paused = S.is_paused
            /\ last_update_time = S.last_update_time
            /\ pc = "idle"
            /\ delta_time = d
            /\ preset = EmptyPreset
            /\ noise = NoNoise
            /\ last = [name |-> "init", arg |-> << >>,
                       outcome |-> "returned", pre |-> S, t |-> 0]
            /\ last2 = [name |-> "init", arg |-> << >>,
                        outcome |-> "returned", pre |-> S, t |-> 0]
            /\ nops = 0
            /\ race = NoRace
            /\ startup(FilesWith(cfg))

\* line 430, the call finding the clock delta_time after the previous one
BrakingCall ==
    /\ pc = "idle"
    /\ \E n \in QuietNoise :
         LET r == simulate_vehicle_data(
                      [Cur EXCEPT !.last_update_time = now - delta_time],
                      now, n)
         IN  /\ Install(r.S)
             /\ pc' = IF r.outcome = "raised" THEN "dead" ELSE "sleep"
             /\ last' = [name |-> "step", arg |-> delta_time,
                         outcome |-> r.outcome, pre |-> Cur, t |-> now]
             /\ last2' = last
    /\ UNCHANGED <<now, delta_time, preset, noise, nops, race>>
    /\ UNCHANGED panel

\* line 431: the sleep returns
BrakingSleep ==
    /\ pc = "sleep"
    /\ pc' = "while"
    /\ UNCHANGED <<vehicle_data, simulation_enabled, is_running, is_paused,
                   last_update_time, now, delta_time, preset, noise,
                   last, last2, nops, race>>
    /\ UNCHANGED panel

BrakingNext ==
    \/ LoopWhile
    \/ BrakingCall
    \/ BrakingSleep

\* the thread is scheduled again and again, as in SpecLoop
SpecBraking == InitBraking /\ [][BrakingNext]_vars /\ WF_pc(SimThread)

(***************************************************************************)
(* Properties                                                              *)
(***************************************************************************)
\* the documented ranges of the six bounded fields
InRanges(vd) ==
    /\ vd.rpm \in 0..8000
    /\ vd.speed_kmh \in 0..3000
    /\ vd.clutch_value \in 0..1000
    /\ vd.break_value \in 0..1000
    /\ vd.accel_value \in 0..1000
    /\ vd.steering_wheel_angle \in -7800..7800

Setters == {"set_clutch_value", "set_break_value", "set_accel_value",
            "set_steering_wheel_angle"}

\* C1: a step that starts with the six bounded fields in range leaves them
\* in range, whatever dt, gear, power flag, maneuver flag and maneuver name
C1_ClampInvariant ==
    (last.name = "step" /\ InRanges(last.pre.vehicle_data))
        => InRanges(vehicle_data)

\* a started vehicle near the rpm cap was stepped with dt > 0 and was capped
C1_Witness ==
    /\ last.name = "step"
    /\ last.outcome = "returned"
    /\ last.arg > 0
    /\ InRanges(last.pre.vehicle_data)
    /\ last.pre.vehicle_data.vehicle_started
    /\ last.pre.vehicle_data.rpm < 8000
    /\ vehicle_data.rpm = 8000

C4_OdometerNonDecreasing ==
    (last.name = "step" /\ last.pre.vehicle_data.odometer_km >= 0)
        => vehicle_data.odometer_km >= last.pre.vehicle_data.odometer_km

\* C5: on a started vehicle, start_maneuver("Emergency Stop") followed by
\* one executed step gives speed 0 and brake 100, whatever the pedals, the
\* speed, the gear and dt were
C5_EmergencyStop ==
    (/\ last.name = "step"
     /\ last.outcome = "returned"
     /\ last2.name = "start_maneuver"
     /\ last2.arg = "Emergency Stop"
     /\ last2.pre.vehicle_data.vehicle_started)
        => /\ vehicle_data.speed_kmh = 0
           /\ vehicle_data.break_value = 1000

\* Emergency Stop was started while accelerating at speed, then stepped
C5_Witness ==
    /\ last.name = "step"
    /\ last.outcome = "returned"
    /\ last.arg > 0
    /\ last2.name = "start_maneuver"
    /\ last2.arg = "Emergency Stop"
    /\ last2.pre.vehicle_data.vehicle_started
    /\ last2.pre.vehicle_data.accel_value > 0
    /\ last2.pre.vehicle_data.break_value = 0
    /\ last2.pre.vehicle_data.speed_kmh > 0

\* C6: set_gear(g) sets the gear when the vehicle is started or g is P or N,
\* and otherwise changes nothing at all
C6_SetGear ==
    last.name = "set_gear"
        => /\ last.outcome = "returned"
           /\ now = last.t
           /\ Cur = IF last.pre.vehicle_data.vehicle_started
                        \/ last.arg \in {"P", "N"}
                      THEN [last.pre EXCEPT !.vehicle_data.gear = last.arg]
                      ELSE last.pre

\* set_gear("D") was called on a vehicle that is off and not in D
C6_Witness ==
    /\ last.name = "set_gear"
    /\ last.arg = "D"
    /\ ~last.pre.vehicle_data.vehicle_started
    /\ last.pre.vehicle_data.gear # "D"

\* C7: start_maneuver(name) sets maneuver_active and maneuver_name only on
\* a started vehicle, and otherwise changes nothing at all
C7_StartManeuver ==
    last.name = "start_maneuver"
        => /\ last.outcome = "returned"
           /\ Cur = IF last.pre.vehicle_data.vehicle_started
                      THEN [last.pre EXCEPT
                               !.vehicle_data.maneuver_active = TRUE,
                               !.vehicle_data.maneuver_name = last.arg]
                      ELSE last.pre

\* start_maneuver was called with a catalogue name on a vehicle that is off
C7_Witness ==
    /\ last.name = "start_maneuver"
    /\ last.arg = "Sharp Turn"
    /\ ~last.pre.vehicle_data.vehicle_started
    /\ ~last.pre.vehicle_data.maneuver_active

\* C8: two toggles in a row restore vehicle_started, ending off forces
\* rpm 0, speed 0 and gear P, and turning on changes vehicle_started only
C8_TogglePowerTwice ==
    /\ (last.name = "toggle_vehicle_power"
            /\ last2.name = "toggle_vehicle_power")
         => /\ vehicle_data.vehicle_started
                  = last2.pre.vehicle_data.vehicle_started
            /\ ~vehicle_data.vehicle_started
                 => /\ vehicle_data.rpm = 0
                    /\ vehicle_data.speed_kmh = 0
                    /\ vehicle_data.gear = "P"
    /\ (last.name = "toggle_vehicle_power" /\ vehicle_data.vehicle_started)
         => Cur = [last.pre EXCEPT !.vehicle_data.vehicle_started = TRUE]

\* a vehicle that was off with rpm and speed was toggled on and off again
C8_Witness ==
    /\ last.name = "toggle_vehicle_power"
    /\ last2.name = "toggle_vehicle_power"
    /\ ~last2.pre.vehicle_data.vehicle_started
    /\ last2.pre.vehicle_data.rpm > 0
    /\ last2.pre.vehicle_data.speed_kmh > 0
    /\ last2.pre.vehicle_data.gear # "P"

\* C9: reset_vehicle with a record whose six bounded values are in range
\* makes validate() true, whatever the state before
C9_ResetValidates ==
    (last.name = "reset_vehicle" /\ InRanges(last.arg))
        => validate(vehicle_data)

\* an invalid state was reset with a valid record
C9_Witness ==
    /\ last.name = "reset_vehicle"
    /\ InRanges(last.arg)
    /\ ~validate(last.pre.vehicle_data)

\* C10: after reset_vehicle(initial) every field has the value of initial
\* except the forced flags and maneuver_name; the handler runs, unpaused,
\* with its timer reference at the time of the reset; simulation_enabled
\* is unchanged
C10_Reset ==
    last.name = "reset_vehicle"
        => /\ \A f \in VehicleDataFields \ {"vehicle_started",
                                            "maneuver_active"} :
                  vehicle_data[f] = last.arg[f]
           /\ vehicle_data.vehicle_started = FALSE
           /\ vehicle_data.maneuver_active = FALSE
           /\ vehicle_data.maneuver_name = NoneVal
           /\ is_running = TRUE
           /\ is_paused = FALSE
           /\ last_update_time = now
           /\ now = last.t
           /\ simulation_enabled = last.pre.simulation_enabled

\* a stopped simulation was reset, later than its last timer reference,
\* with a record that says started and maneuver active
C10_Witness ==
    /\ last.name = "reset_vehicle"
    /\ last.arg.vehicle_started
    /\ last.arg.maneuver_active
    /\ ~last.pre.is_running
    /\ last.pre.vehicle_data.gear # last.arg.gear
    /\ now > last.pre.last_update_time

\* the command has run and the step has returned
RaceDone == race.on /\ race.cmd # << >> /\ race.stepped

\* the two serial orders of the step and the command, from the state and
\* with the draws of the race
StepThenCommand ==
    ApplyCmd(simulate_vehicle_data(race.start, now, noise).S,
             race.cmd[1], now)
CommandThenStep ==
    simulate_vehicle_data(ApplyCmd(race.start, race.cmd[1], now),
                          now, noise).S

\* C3: a step interleaved with a command leaves the VehicleData of one of
\* the two serial orders
C3_Serializable ==
    RaceDone => vehicle_data \in {StepThenCommand.vehicle_data,
                                  CommandThenStep.vehicle_data}

\* C11: a step invoked while the simulation is disabled, not running or
\* paused changes nothing: every field of VehicleData, the three mode flags
\* and the handler's timer are what they were before the call, and this for
\* each of any number of such calls
C11_StepNoOp ==
    (/\ last.name = "step"
     /\ \/ ~last.pre.simulation_enabled
        \/ ~last.pre.is_running
        \/ last.pre.is_paused)
    => /\ vehicle_data = last.pre.vehicle_data
       /\ Cur = last.pre

\* a step on a paused, started, accelerating vehicle after a full second
C11_Witness ==
    /\ last.name = "step"
    /\ last.arg = 2
    /\ last.pre.is_paused
    /\ last.pre.simulation_enabled
    /\ last.pre.is_running
    /\ last.pre.vehicle_data.vehicle_started
    /\ last.pre.vehicle_data.accel_value > 0
    /\ last.pre.vehicle_data.rpm < 8000

\* C12: stop_simulation leaves is_running false, is_paused false, the
\* vehicle off, rpm 0, speed 0 and gear "P"; while is_running is false no
\* step changes VehicleData, whatever commands were issued in between;
\* and is_running becomes true again by reset_vehicle and by nothing else
C12_StoppedUntilReset ==
    /\ last.name = "stop_simulation" =>
           /\ ~is_running
           /\ ~is_paused
           /\ ~vehicle_data.vehicle_started
           /\ vehicle_data.rpm = 0
           /\ vehicle_data.speed_kmh = 0
           /\ vehicle_data.gear = "P"
    /\ (last.name = "step" /\ ~last.pre.is_running) =>
           vehicle_data = last.pre.vehicle_data
    /\ (is_running /\ ~last.pre.is_running) => last.name = "reset_vehicle"
    /\ last.name = "reset_vehicle" => is_running

\* stopped, then switched on again by the power button, then a step a full
\* second later that would otherwise have raised the rpm
C12_Witness ==
    /\ last.name = "step"
    /\ last.arg = 2
    /\ last2.name = "toggle_vehicle_power"
    /\ ~last2.pre.is_running
    /\ ~last.pre.is_running
    /\ last.pre.simulation_enabled
    /\ ~last.pre.is_paused
    /\ last.pre.vehicle_data.vehicle_started
    /\ last.pre.vehicle_data.accel_value > 0

\* the maneuver name of a VehicleData, a missing attribute read as None
name_of(vd) == IF vd.maneuver_name = Absent THEN NoneVal ELSE vd.maneuver_name

\* the fields of the data model, maneuver_name included
same_vehicle_state(a, b) ==
    /\ \A f \in VehicleDataFields : a[f] = b[f]
    /\ name_of(a) = name_of(b)

\* C13: saving the state (Save Configuration, or closing the window) and
\* then building the VehicleData from the record loaded from that file gives
\* a VehicleData equal to the saved one in every field, vehicle_started,
\* maneuver_active and maneuver_name included
C13_RoundTrip ==
    /\ (/\ last.name = "load_config_dialog"
         /\ last2.name = "save_config_dialog"
         /\ last.arg.file_path = last2.arg)
        => same_vehicle_state(vehicle_data, last2.pre.vehicle_data)
    /\ last.name \in {"save_config_dialog", "on_closing"} =>
           LET p == IF last.name = "on_closing" THEN config_file ELSE last.arg
               L == load_config(fs, manager_default_config, p)
           IN  same_vehicle_state(VehicleData(L.config.vehicle_data),
                                  vehicle_data)

\* C14: no step and no command raises in any state reached from a
\* VehicleData built from a configuration record, a record with
\* vehicle_started and maneuver_active both true included: the thread that
\* runs the steps is never ended by an exception
C14_NothingRaises ==
    /\ last.outcome # "raised"
    /\ pc # "dead"

\* the file the load was asked for, before the call
loaded_file == last.arg.files[last.arg.file_path]

\* C15: load_config(p) on a path p that does not exist writes the default
\* configuration to p, so that p exists afterwards and holds the defaults,
\* and returns the defaults
C15_LoadAbsentCreatesFile ==
    (last.name = "load_config_dialog" /\ ~loaded_file.exists)
    => /\ fs[last.arg.file_path].exists
       /\ fs[last.arg.file_path] = JsonFile(default_config)
       /\ last.arg.returned = default_config

\* C16: load_config on an existing file that is not parsable JSON returns
\* the default configuration, raises nothing and leaves the file as it was
C16_LoadMalformedFallsBack ==
    (/\ last.name = "load_config_dialog"
     /\ loaded_file.exists
     /\ loaded_file.json = << >>)
    => /\ last.outcome = "returned"
       /\ fs = last.arg.files
       /\ last.arg.returned = default_config

\* C17: once the window is closed and stop_sim_thread has cleared
\* sim_thread_running, the thread of _run_simulation calls the step at most
\* once more and then ends
C17_CooperativeShutdown ==
    /\ [](steps_after_stop <= 1)
    /\ (~sim_thread_running ~> pc \in {"exited", "dead"})

\* the flag was cleared between the test and the call: one more step ran,
\* then the loop ended
C17_Witness ==
    /\ ~sim_thread_running
    /\ steps_after_stop = 1
    /\ last.name = "step"
    /\ last2.name = "on_closing"
    /\ pc = "exited"

\* the seconds between the step and the handler's previous clock read, in
\* half seconds
elapsed == last.t - last.pre.last_update_time

\* C18: a step on a started vehicle with no maneuver, a driving gear,
\* accel > 0 and brake = 0 sets rpm to round(min(8000, rpm + accel*5*dt))
\* and speed to round(min(300, speed + (accel/10)*dt*5), 1); from gear D,
\* accel 50, rpm 0 and speed 0 a step of dt = 1.0 s gives rpm 250 and
\* speed 25.0.  (accel*5*dt and (accel/10)*dt*5 in tenths of km/h are both
\* accel_value * elapsed / 4 in the units of the model.)
C18_Acceleration ==
    (/\ last.name = "step"
     /\ last.outcome = "returned"
     /\ last.pre.vehicle_data.vehicle_started
     /\ ~last.pre.vehicle_data.maneuver_active
     /\ last.pre.vehicle_data.gear \in
            {"D", "R", "L", "1", "2", "3", "4", "5", "6"}
     /\ last.pre.vehicle_data.accel_value > 0
     /\ last.pre.vehicle_data.break_value = 0
     /\ last.pre.vehicle_data.rpm >= 0
     /\ last.pre.vehicle_data.speed_kmh >= 0)
    => LET v == last.pre.vehicle_data
           gain == v.accel_value * elapsed
       IN  /\ vehicle_data.rpm =
                  RoundHalfEven(Min(4 * 8000, 4 * v.rpm + gain), 4)
           /\ vehicle_data.speed_kmh =
                  RoundHalfEven(Min(4 * 3000, 4 * v.speed_kmh + gain), 4)
           /\ (v.accel_value = 500 /\ v.rpm = 0 /\ v.speed_kmh = 0
                  /\ v.gear = "D" /\ elapsed = 2)
               => (vehicle_data.rpm = 250 /\ vehicle_data.speed_kmh = 250)

\* the scenario of the claim has run
C18_Witness ==
    /\ last.name = "step"
    /\ last.outcome = "returned"
    /\ elapsed = 2
    /\ last.pre.vehicle_data.vehicle_started
    /\ ~last.pre.vehicle_data.maneuver_active
    /\ last.pre.vehicle_data.gear = "D"
    /\ last.pre.vehicle_data.accel_value = 500
    /\ last.pre.vehicle_data.break_value = 0
    /\ last.pre.vehicle_data.rpm = 0
    /\ last.pre.vehicle_data.speed_kmh = 0
    /\ vehicle_data.rpm = 250
    /\ vehicle_data.speed_kmh = 250

\* C19: a step on a started vehicle with a catalogue maneuver active sets
\* the fields of the preset (Standard Cruise: speed 60, steering 0; Sharp
\* Turn: steering 300, speed 30; Emergency Stop: brake 100, speed 0) and
\* leaves the one of speed, steering and brake that the preset omits at its
\* value before the step, clamped to its range
C19_PresetPartialOverwrite ==
    (/\ last.name = "step"
     /\ last.outcome = "returned"
     /\ last.pre.vehicle_data.vehicle_started
     /\ last.pre.vehicle_data.maneuver_active)
    => LET v == last.pre.vehicle_data
           m == v.maneuver_name
       IN  /\ m = "Standard Cruise" =>
                  /\ vehicle_data.speed_kmh = 600
                  /\ vehicle_data.steering_wheel_angle = 0
                  /\ vehicle_data.break_value =
                         Max(0, Min(1000, v.break_value))
           /\ m = "Sharp Turn" =>
                  /\ vehicle_data.speed_kmh = 300
                  /\ vehicle_data.steering_wheel_angle = 3000
                  /\ vehicle_data.break_value =
                         Max(0, Min(1000, v.break_value))
           /\ m = "Emergency Stop" =>
                  /\ vehicle_data.speed_kmh = 0
                  /\ vehicle_data.break_value = 1000
                  /\ vehicle_data.steering_wheel_angle =
                         Max(-7800, Min(7800, v.steering_wheel_angle))

\* Sharp Turn on a vehicle braking at 20: the step keeps the brake
C19_Witness ==
    /\ last.name = "step"
    /\ last.outcome = "returned"
    /\ last.pre.vehicle_data.vehicle_started
    /\ last.pre.vehicle_data.maneuver_active
    /\ last.pre.vehicle_data.maneuver_name = "Sharp Turn"
    /\ last.pre.vehicle_data.break_value = 200
    /\ last.pre.vehicle_data.speed_kmh = 1200
    /\ vehicle_data.break_value = 200
    /\ vehicle_data.steering_wheel_angle = 3000

\* C20: validate() returns true exactly when rpm is in [0, 8000], speed in
\* [0, 300], steering in [-780, 780] and clutch, brake and accel in
\* [0, 100]; gear, odometer, pose, angles, rates and flags play no part;
\* it returns a boolean and changes nothing
C20_Validate ==
    last.name = "validate" =>
        /\ last.outcome \in {"True", "False"}
        /\ last.outcome = "True" <=>
               /\ vehicle_data.rpm \in 0..8000
               /\ vehicle_data.speed_kmh \in 0..3000
               /\ vehicle_data.steering_wheel_angle \in -7800..7800
               /\ vehicle_data.clutch_value \in 0..1000
               /\ vehicle_data.break_value \in 0..1000
               /\ vehicle_data.accel_value \in 0..1000
        /\ Cur = last.pre

\* true on the bounds themselves, with an unknown gear, a negative odometer
\* and a maneuver flagged on a record that names none
C20_Witness ==
    /\ last.name = "validate"
    /\ last.outcome = "True"
    /\ vehicle_data.rpm = 8000
    /\ vehicle_data.speed_kmh = 3000
    /\ vehicle_data.steering_wheel_angle = -7800
    /\ vehicle_data.accel_value = 1000
    /\ vehicle_data.gear = "X"
    /\ vehicle_data.odometer_km < 0
    /\ vehicle_data.maneuver_active

\* the field a setter writes
setter_field ==
    CASE last.name = "set_clutch_value" -> "clutch_value"
      [] last.name = "set_break_value" -> "break_value"
      [] last.name = "set_accel_value" -> "accel_value"
      [] last.name = "set_steering_wheel_angle" -> "steering_wheel_angle"

SetterFields ==
    {"clutch_value", "break_value", "accel_value", "steering_wheel_angle"}

\* the bound of field f nearest to x (x itself when in range)
nearest_bound(f, x) ==
    IF f = "steering_wheel_angle" THEN Max(-7800, Min(7800, x))
    ELSE Max(0, Min(1000, x))

\* a setter stores its argument as it is, whatever the mode, and touches
\* nothing else; an argument out of range makes validate() false
SetterVerbatim ==
    last.name \in Setters =>
        /\ vehicle_data[setter_field] = last.arg
        /\ \A f \in DOMAIN vehicle_data \ {setter_field} :
               vehicle_data[f] = last.pre.vehicle_data[f]
        /\ simulation_enabled = last.pre.simulation_enabled
        /\ is_running = last.pre.is_running
        /\ is_paused = last.pre.is_paused
        /\ last_update_time = last.pre.last_update_time
        /\ nearest_bound(setter_field, last.arg) # last.arg =>
               ~validate(vehicle_data)

\* the step before which the active maneuver's preset holds a value for f
preset_assigns(vd, f) ==
    /\ vd.vehicle_started
    /\ vd.maneuver_active
    /\ \/ f = "steering_wheel_angle"
           /\ vd.maneuver_name \in {"Standard Cruise", "Sharp Turn"}
       \/ f = "break_value" /\ vd.maneuver_name = "Emergency Stop"

away_from_bounds(vd) ==
    /\ 0 < vd.rpm /\ vd.rpm < 8000
    /\ 0 < vd.speed_kmh /\ vd.speed_kmh < 3000

\* the state had the two last steps been one step at the time of the second
one_step_instead ==
    simulate_vehicle_data(last2.pre, last.t,
                          CHOOSE n \in Noise : n.ux > 0).S.vehicle_data

\* two steps in a row on a started vehicle with no maneuver and pedals in
\* range, rpm and speed away from their bounds before, between and after
two_steps_in_a_row ==
    /\ last2.name = "step" /\ last2.outcome = "returned"
    /\ last.name = "step" /\ last.outcome = "returned"
    /\ last2.pre.vehicle_data.vehicle_started
    /\ ~last2.pre.vehicle_data.maneuver_active
    /\ last2.pre.vehicle_data.accel_value \in 0..1000
    /\ last2.pre.vehicle_data.break_value \in 0..1000
    /\ away_from_bounds(last2.pre.vehicle_data)
    /\ away_from_bounds(last.pre.vehicle_data)
    /\ away_from_bounds(vehicle_data)
    /\ away_from_bounds(one_step_instead)

\* C22 as stated: a step of dt1 followed by a step of dt2 gives the rpm,
\* speed_kmh and odometer_km of one step of dt1 + dt2
C22_StepsAdd ==
    two_steps_in_a_row =>
        /\ vehicle_data.rpm = one_step_instead.rpm
        /\ vehicle_data.speed_kmh = one_step_instead.speed_kmh
        /\ vehicle_data.odometer_km = one_step_instead.odometer_km

\* C22 amended: a step of dt1 followed by a step of dt2 gives the rpm and
\* speed_kmh of one step of dt1 + dt2 up to one unit of the rounding of
\* each step (1 rpm, 0.1 km/h)
C22_StepsAddUpToRounding ==
    two_steps_in_a_row =>
        /\ vehicle_data.rpm - one_step_instead.rpm \in -1..1
        /\ vehicle_data.speed_kmh - one_step_instead.speed_kmh \in -1..1

\* two steps of half a second at accel 4.6 end 1 rpm and 0.1 km/h above
\* one step of a second
C22_Witness ==
    /\ two_steps_in_a_row
    /\ last2.pre.vehicle_data.accel_value = 46
    /\ last2.pre.vehicle_data.gear = "D"
    /\ last2.t - last2.pre.last_update_time = 1
    /\ last.t - last.pre.last_update_time = 1
    /\ vehicle_data.rpm = one_step_instead.rpm + 1
    /\ vehicle_data.speed_kmh = one_step_instead.speed_kmh + 1

\* C23: gear is always one of P, R, N, D, L, 1..6, whatever commands and
\* steps ran and whatever argument set_gear was called with
C23_GearInSet == vehicle_data.gear \in Gears

\* C24: once a step and an interleaved toggle_vehicle_power that turns the
\* vehicle off, or stop_simulation, have both completed, the vehicle is off
\* with rpm and speed_kmh both 0
C24_OffAfterRace ==
    (/\ RaceDone
     /\ race.cmd[1].name \in {"toggle_vehicle_power", "stop_simulation"}
     /\ ~vehicle_data.vehicle_started)
    => vehicle_data.rpm = 0 /\ vehicle_data.speed_kmh = 0

\* C25: a step on a started vehicle with no maneuver, a driving gear and
\* both pedals pressed raises rpm by accel*5*dt, capped at 8000, and lowers
\* speed by (brake/5)*dt*5, floored at 0: the accelerator wins for rpm and
\* the brake wins for speed
C25_PedalPriority ==
    (/\ last.name = "step"
     /\ last.outcome = "returned"
     /\ last.pre.vehicle_data.vehicle_started
     /\ ~last.pre.vehicle_data.maneuver_active
     /\ last.pre.vehicle_data.gear \in
            {"D", "R", "L", "1", "2", "3", "4", "5", "6"}
     /\ last.pre.vehicle_data.accel_value > 0
     /\ last.pre.vehicle_data.break_value > 0
     /\ last.pre.vehicle_data.rpm \in 0..8000
     /\ last.pre.vehicle_data.speed_kmh \in 0..3000)
    => LET v == last.pre.vehicle_data
       IN  /\ vehicle_data.rpm =
                  RoundHalfEven(Min(4 * 8000,
                                    4 * v.rpm + v.accel_value * elapsed), 4)
           /\ vehicle_data.speed_kmh =
                  RoundHalfEven(Max(0, 2 * v.speed_kmh
                                       - v.break_value * elapsed), 2)

\* accel 50 and brake 20 at rpm 3000 and 120 km/h in D: a step of a second
\* gives rpm 3250 and 100 km/h
C25_Witness ==
    /\ last.name = "step"
    /\ last.outcome = "returned"
    /\ elapsed = 2
    /\ last.pre.vehicle_data.vehicle_started
    /\ ~last.pre.vehicle_data.maneuver_active
    /\ last.pre.vehicle_data.gear = "D"
    /\ last.pre.vehicle_data.accel_value = 500
    /\ last.pre.vehicle_data.break_value = 200
    /\ last.pre.vehicle_data.rpm = 3000
    /\ last.pre.vehicle_data.speed_kmh = 1200
    /\ vehicle_data.rpm = 3250
    /\ vehicle_data.speed_kmh = 1000

\* C26: a step on a started vehicle with no maneuver, brake = 0 and gear N
\* or P sets speed to 0 whatever the speed, dt and accelerator were, while
\* rpm still follows the accelerator when accel > 0
C26_NeutralSnapsSpeed ==
    (/\ last.name = "step"
     /\ last.outcome = "returned"
     /\ last.pre.vehicle_data.vehicle_started
     /\ ~last.pre.vehicle_data.maneuver_active
     /\ last.pre.vehicle_data.break_value = 0
     /\ last.pre.vehicle_data.gear \in {"N", "P"})
    => LET v == last.pre.vehicle_data
       IN  /\ vehicle_data.speed_kmh = 0
           /\ (v.accel_value > 0 /\ v.rpm \in 0..8000)
               => /\ vehicle_data.rpm =
                         RoundHalfEven(Min(4 * 8000,
                                  4 * v.rpm + v.accel_value * elapsed), 4)
                  /\ vehicle_data.rpm >= v.rpm

\* in N at 45 km/h with accel 4.6 and rpm 1500, a step of a second leaves
\* speed 0 and rpm 1523
C26_Witness ==
    /\ last.name = "step"
    /\ last.outcome = "returned"
    /\ elapsed = 2
    /\ last.pre.vehicle_data.vehicle_started
    /\ ~last.pre.vehicle_data.maneuver_active
    /\ last.pre.vehicle_data.gear = "N"
    /\ last.pre.vehicle_data.break_value = 0
    /\ last.pre.vehicle_data.accel_value = 46
    /\ last.pre.vehicle_data.speed_kmh = 450
    /\ last.pre.vehicle_data.rpm = 1500
    /\ vehicle_data.speed_kmh = 0
    /\ vehicle_data.rpm = 1523

\* C27: a step that executes on a vehicle that is off changes nothing but
\* the six clamped fields, each brought to the nearest bound of its range
\* (so unchanged when in range), and the handler's timer, set to the time
\* of the call
C27_OffStepOnlyClamps ==
    (/\ last.name = "step"
     /\ last.outcome = "returned"
     /\ ~last.pre.vehicle_data.vehicle_started)
    => LET v == last.pre.vehicle_data
       IN  /\ vehicle_data =
                  [v EXCEPT
                     !.rpm = Max(0, Min(8000, v.rpm)),
                     !.speed_kmh = Max(0, Min(3000, v.speed_kmh)),
                     !.clutch_value = Max(0, Min(1000, v.clutch_value)),
                     !.break_value = Max(0, Min(1000, v.break_value)),
                     !.accel_value = Max(0, Min(1000, v.accel_value)),
                     !.steering_wheel_angle =
                         Max(-7800, Min(7800, v.steering_wheel_angle))]
           /\ InRanges(v) => vehicle_data = v
           /\ simulation_enabled = last.pre.simulation_enabled
           /\ is_running = last.pre.is_running
           /\ is_paused = last.pre.is_paused
           /\ last_update_time = last.t

\* a step of a second on an off vehicle whose accelerator was set to 120:
\* the accelerator comes back to 100, the timer advances
C27_Witness ==
    /\ last.name = "step"
    /\ last.outcome = "returned"
    /\ ~last.pre.vehicle_data.vehicle_started
    /\ last.pre.vehicle_data.accel_value = 1200
    /\ last.pre.vehicle_data.rpm = 1500
    /\ elapsed = 2
    /\ vehicle_data.accel_value = 1000
    /\ vehicle_data.rpm = 1500
    /\ last_update_time = last.pre.last_update_time + 2

\* C28: starting from a vehicle that is off with no maneuver, after any
\* commands and steps maneuver_active implies vehicle_started
C28_ManeuverOnlyWhileStarted ==
    vehicle_data.maneuver_active => vehicle_data.vehicle_started

\* C29: starting from the default configuration and resetting only to the
\* default record, after any commands and steps a vehicle that is off is in
\* gear P or N
C29_OffInParkOrNeutral ==
    ~vehicle_data.vehicle_started => vehicle_data.gear \in {"P", "N"}

\* a vehicle in D has been powered off and is in P, or a gear other than P
\* and N has been refused while it was off
C29_Witness ==
    /\ ~vehicle_data.vehicle_started
    /\ \/ /\ last.name = "toggle_vehicle_power"
          /\ last.pre.vehicle_data.vehicle_started
          /\ last.pre.vehicle_data.gear = "D"
          /\ vehicle_data.gear = "P"
       \/ /\ last.name = "set_gear"
          /\ last.arg = "D"
          /\ ~last.pre.vehicle_data.vehicle_started
          /\ vehicle_data.gear = last.pre.vehicle_data.gear

\* C30: stop_maneuver, whatever the state, changes only maneuver_active (to
\* false) and maneuver_name (to null); after it ends an Emergency Stop whose
\* preset had set break_value to 100, the next step leaves break_value at
\* 100 and takes the brake branch for speed
C30_StopManeuverFrame ==
    /\ last.name = "stop_maneuver"
       => /\ vehicle_data =
                 [last.pre.vehicle_data EXCEPT !.maneuver_active = FALSE,
                                               !.maneuver_name = NoneVal]
          /\ simulation_enabled = last.pre.simulation_enabled
          /\ is_running = last.pre.is_running
          /\ is_paused = last.pre.is_paused
          /\ last_update_time = last.pre.last_update_time
    /\ (/\ last2.name = "stop_maneuver"
        /\ last2.pre.vehicle_data.maneuver_active
        /\ last2.pre.vehicle_data.maneuver_name = "Emergency Stop"
        /\ last2.pre.vehicle_data.break_value = 1000
        /\ last.name = "step"
        /\ last.outcome = "returned"
        /\ last.pre.vehicle_data.vehicle_started)
       => /\ last.pre.vehicle_data.break_value = 1000
          /\ vehicle_data.break_value = 1000
          /\ vehicle_data.speed_kmh =
                 Min(3000, RoundHalfEven(
                     Max(0, 2 * last.pre.vehicle_data.speed_kmh
                            - 1000 * elapsed), 2))

\* an Emergency Stop in D with accel 4.6 is stopped and a step of a second
\* follows: the brake is still 100 and the speed stays 0 instead of rising
C30_Witness ==
    /\ last2.name = "stop_maneuver"
    /\ last2.pre.vehicle_data.maneuver_active
    /\ last2.pre.vehicle_data.maneuver_name = "Emergency Stop"
    /\ last2.pre.vehicle_data.break_value = 1000
    /\ last.name = "step"
    /\ last.outcome = "returned"
    /\ elapsed = 2
    /\ last.pre.vehicle_data.vehicle_started
    /\ ~last.pre.vehicle_data.maneuver_active
    /\ last.pre.vehicle_data.maneuver_name = NoneVal
    /\ last.pre.vehicle_data.gear = "D"
    /\ last.pre.vehicle_data.accel_value = 46
    /\ vehicle_data.break_value = 1000
    /\ vehicle_data.speed_kmh = 0

\* the names of the catalogue of maneuver presets
Catalogue == {"Standard Cruise", "Sharp Turn", "Emergency Stop"}

\* C31: a step on a started vehicle in a maneuver whose name is not in the
\* catalogue (null included) leaves speed_kmh, steering_wheel_angle and
\* break_value as they were, up to the final clamp, applying none of the
\* speed rules, while rpm follows the pedal rule
C31_UnknownManeuverFreezesSpeed ==
    (/\ last.name = "step"
     /\ last.outcome = "returned"
     /\ last.pre.vehicle_data.vehicle_started
     /\ last.pre.vehicle_data.maneuver_active
     /\ last.pre.vehicle_data.maneuver_name \notin Catalogue)
    => LET v == last.pre.vehicle_data
           r == IF v.accel_value > 0
                  THEN RoundHalfEven(Min(4 * 8000,
                           4 * v.rpm + v.accel_value * elapsed), 4)
                ELSE IF v.break_value > 0
                  THEN RoundHalfEven(Max(0,
                           10 * v.rpm - v.break_value * elapsed), 10)
                ELSE Max(0, v.rpm - 50 * elapsed)
       IN  /\ vehicle_data.speed_kmh = Max(0, Min(3000, v.speed_kmh))
           /\ vehicle_data.steering_wheel_angle =
                  Max(-7800, Min(7800, v.steering_wheel_angle))
           /\ vehicle_data.break_value = Max(0, Min(1000, v.break_value))
           /\ vehicle_data.rpm = Max(0, Min(8000, r))

\* in D with accel 50 and brake 0 at rest, a maneuver named Drift or null
\* is active and a step of a second runs: rpm rises to 250, speed stays 0
C31_Witness ==
    /\ last.name = "step"
    /\ last.outcome = "returned"
    /\ elapsed = 2
    /\ last.pre.vehicle_data.vehicle_started
    /\ last.pre.vehicle_data.maneuver_active
    /\ last.pre.vehicle_data.maneuver_name \in {"Drift", NoneVal}
    /\ last.pre.vehicle_data.gear = "D"
    /\ last.pre.vehicle_data.accel_value = 500
    /\ last.pre.vehicle_data.break_value = 0
    /\ last.pre.vehicle_data.speed_kmh = 0
    /\ last.pre.vehicle_data.rpm = 0
    /\ vehicle_data.speed_kmh = 0
    /\ vehicle_data.rpm = 250

\* the last operation resumed the stepping: toggle_pause on a paused
\* handler or toggle_simulation on a disabled one
resumed ==
    \/ last2.name = "toggle_pause" /\ last2.pre.is_paused
    \/ last2.name = "toggle_simulation" /\ ~last2.pre.simulation_enabled

\* C32: a step that returns at line 28 and toggle_pause leave the timer of
\* the handler where it was, so the first step that executes after the
\* stepping resumed uses as dt the time since the timer was last set, the
\* held interval included, and sets the timer to the time of its call
C32_HeldIntervalCounts ==
    /\ (last.name = "step" /\ last.outcome = "noop")
       => last_update_time = last.pre.last_update_time
    /\ last.name \in {"toggle_pause", "toggle_simulation"}
       => last_update_time = last.pre.last_update_time
    /\ (/\ resumed
        /\ last.name = "step"
        /\ last.outcome = "returned")
       => LET v == last.pre.vehicle_data
              dt == last.t - last2.pre.last_update_time
          IN  /\ last_update_time = last.t
              /\ (/\ v.vehicle_started
                  /\ v.accel_value > 0
                  /\ v.rpm \in 0..8000)
                 => vehicle_data.rpm =
                        RoundHalfEven(Min(4 * 8000,
                                          4 * v.rpm + v.accel_value * dt), 4)

\* a started vehicle with accel 50 at rpm 0 was paused for a second; half a
\* second after the pause ends a step runs with dt = 1.5 s: rpm 375
C32_Witness ==
    /\ last2.name = "toggle_pause"
    /\ last2.pre.is_paused
    /\ last2.t - last2.pre.last_update_time = 2
    /\ last.name = "step"
    /\ last.outcome = "returned"
    /\ last.t - last2.t = 1
    /\ last.pre.vehicle_data.vehicle_started
    /\ last.pre.vehicle_data.accel_value = 500
    /\ last.pre.vehicle_data.rpm = 0
    /\ vehicle_data.rpm = 375
    /\ last_update_time = last.t

\* C33: the default configuration record of the ConfigManager is never
\* modified after construction, and the Reset button restores the built-in
\* default vehicle_data, whatever files were found at start-up and whatever
\* Save, Load and shutdown-save operations ran
C33_DefaultRecordIntact ==
    /\ manager_default_config = default_config
    /\ (last.name = "reset_vehicle"
          /\ last.arg = manager_default_config.vehicle_data)
       => \A f \in DOMAIN default_vehicle_data \
                      {"vehicle_started", "maneuver_active"} :
              vehicle_data[f] = default_vehicle_data[f]

\* C34: with the vehicle started, no maneuver, the brake held at a value
\* > 0 and steps that keep executing with a fixed dt > 0, speed_kmh
\* eventually is 0 and stays 0, and with accel_value = 0 so does rpm
C34_BrakingStops ==
    (/\ vehicle_data.vehicle_started
     /\ ~vehicle_data.maneuver_active
     /\ vehicle_data.break_value > 0
     /\ delta_time > 0)
    => /\ <>[](vehicle_data.speed_kmh = 0)
       /\ (vehicle_data.accel_value = 0) => <>[](vehicle_data.rpm = 0)

====
